---------------------------- MODULE Spec2Model ----------------------------
(***************************************************************************)
(* Model of boston-housing/normalization.js: six exported functions over   *)
(* tf.js tensors (determineMeanAndStddev, normalizeTensor,                 *)
(* normalizeTensorWithZScore, normalizeTensorWithMinMax,                   *)
(* normalizeTensorWithLogScaling, normalizeTensorWithRobustScaling).       *)
(*                                                                         *)
(* Numbers are exact: a finite number is (n/d)*sqrt(r) in lowest terms     *)
(* with r squarefree, so that sqrt, the only irrational step of the        *)
(* z-score, is computed and not assumed; the IEEE specials NaN, +Infinity  *)
(* and -Infinity are values of their own, produced by division by zero and *)
(* by log of a non-positive number as IEEE 754 produces them.  Natural     *)
(* logarithms are kept symbolic (ln(n/d)) and a quotient of two of them is *)
(* evaluated when the numerator is a power of the denominator.  Rounding   *)
(* of float32 results is outside the model.                                *)
(*                                                                         *)
(* JavaScript values are records with a "type" field, so that `undefined`, *)
(* plain objects, tensors and errors can be told apart, and a call ends in *)
(* an outcome: a returned value or a thrown error.                         *)
(***************************************************************************)
EXTENDS Integers, Sequences, FiniteSets

(***************************************************************************)
(* Bounds of the model.                                                    *)
(***************************************************************************)
\* largest number of samples (rows) of a data matrix
MaxSamples == 3
\* largest number of features (columns) of a data matrix
MaxFeatures == 2
\* largest number of elements of a data matrix
MaxCells == 6

\* the values an element of an input matrix is drawn from
Elements == {-1, 0, 10}
\* the <<mean, standard deviation>> a caller supplies for a column
SuppliedElements == {<<1, 2>>, <<0, 0>>}

(***************************************************************************)
(* Integer helpers.                                                        *)
(***************************************************************************)
Abs(x) == IF x < 0 THEN -x ELSE x

RECURSIVE GCD(_, _)
GCD(a, b) == IF b = 0 THEN a ELSE GCD(b, a % b)

\* the integer square root of m >= 0
ISqrt(m) == CHOOSE s \in 0..m : s * s <= m /\ (s + 1) * (s + 1) > m

\* the largest s with s*s dividing m (m >= 1)
SquarePart(m) ==
    CHOOSE s \in 1..ISqrt(m) :
        /\ m % (s * s) = 0
        /\ \A t \in (s + 1)..ISqrt(m) : m % (t * t) # 0

\* k with base^k = m, or -1 when m is no positive power of base (m > 1)
RECURSIVE PowerOf(_, _)
PowerOf(m, base) ==
    IF m = base THEN 1
    ELSE IF m % base # 0 THEN -1
    ELSE IF PowerOf(m \div base, base) = -1 THEN -1
    ELSE PowerOf(m \div base, base) + 1

\* the element of a set of one element.  A bound variable holds a value, so
\* The({e(x) : x \in {a}}) is e(a) with a evaluated once, as the right-hand
\* side of a `const x = a` is.
The(S) == CHOOSE x \in S : TRUE

(***************************************************************************)
(* Numbers: a float is a record [k, n, d, r].                              *)
(*   k = "fin":  the finite number (n/d)*sqrt(r), d > 0, gcd(n,d) = 1,     *)
(*               r squarefree, and 0 is 0/1*sqrt(1)                        *)
(*   k = "nan", "inf", "ninf": NaN, +Infinity, -Infinity                   *)
(*   k = "ln":   the natural logarithm of the rational n/d (n/d > 0, # 1)  *)
(*   k = "log":  ln(n/d) / ln(r), left unevaluated                         *)
(***************************************************************************)
NaN == [k |-> "nan", n |-> 0, d |-> 1, r |-> 1]
PosInf == [k |-> "inf", n |-> 0, d |-> 1, r |-> 1]
NegInf == [k |-> "ninf", n |-> 0, d |-> 1, r |-> 1]
Zero == [k |-> "fin", n |-> 0, d |-> 1, r |-> 1]
One == [k |-> "fin", n |-> 1, d |-> 1, r |-> 1]

\* (n/d)*sqrt(r) with the common factor g of n and d cancelled
Lowest(n, d, r, g) == [k |-> "fin", n |-> n \div g, d |-> d \div g, r |-> r]

\* (n/d)*sqrt(r) with the square s*s taken out of the radical (d > 0)
Scaled(n, d, r, s) == Lowest(n * s, d, r \div (s * s), GCD(Abs(n * s), d))

\* (n/d)*sqrt(r) in normal form, for d # 0 and r >= 0
Fin(n, d, r) ==
    IF n = 0 \/ r = 0 THEN Zero
    ELSE Scaled(IF d < 0 THEN -n ELSE n, Abs(d), r, SquarePart(r))

Num(i) == [k |-> "fin", n |-> i, d |-> 1, r |-> 1]

IsFin(x) == x.k = "fin"
IsRational(x) == x.k = "fin" /\ x.r = 1
IsInfinite(x) == x.k \in {"inf", "ninf"}

\* the sign of a number that has one: -1, 0 or 1
Sign(x) ==
    CASE x.k = "fin" -> (IF x.n > 0 THEN 1 ELSE IF x.n < 0 THEN -1 ELSE 0)
      [] x.k = "inf" -> 1
      [] x.k = "ninf" -> -1
      [] x.k = "ln" -> (IF x.n > x.d THEN 1 ELSE -1)
      [] x.k = "log" -> (IF (x.n > x.d) = (x.r > 1) THEN 1 ELSE -1)
      [] OTHER -> 0

Infinite(sign) == IF sign > 0 THEN PosInf ELSE NegInf

\* a - b.  Finite operands share their radical (or one of them is 0).
Sub(a, b) ==
    CASE a.k = "nan" \/ b.k = "nan" -> NaN
      [] a.k = "fin" /\ b.k = "fin" ->
            Fin(a.n * b.d - b.n * a.d, a.d * b.d, IF a.n = 0 THEN b.r ELSE a.r)
      [] IsInfinite(a) /\ b.k = a.k -> NaN
      [] IsInfinite(a) -> a
      [] IsInfinite(b) -> Infinite(-Sign(b))

\* a + b.  Finite operands share their radical (or one of them is 0).
Add(a, b) ==
    CASE a.k = "nan" \/ b.k = "nan" -> NaN
      [] a.k = "fin" /\ b.k = "fin" ->
            Fin(a.n * b.d + b.n * a.d, a.d * b.d, IF a.n = 0 THEN b.r ELSE a.r)
      [] IsInfinite(a) /\ IsInfinite(b) -> (IF a.k = b.k THEN a ELSE NaN)
      [] IsInfinite(a) -> a
      [] IsInfinite(b) -> b

\* (n/d)*sqrt(ra)*sqrt(rb), where g is the common factor of ra and rb
Radicals(n, d, ra, rb, g) == Fin(n * g, d, (ra \div g) * (rb \div g))

\* a * b
Mul(a, b) ==
    CASE a.k = "nan" \/ b.k = "nan" -> NaN
      [] a.k = "fin" /\ b.k = "fin" ->
            Radicals(a.n * b.n, a.d * b.d, a.r, b.r, GCD(a.r, b.r))
      [] Sign(a) = 0 \/ Sign(b) = 0 -> NaN
      [] OTHER -> Infinite(Sign(a) * Sign(b))

\* ln(n/d) / ln(base): k where n/d is base^k, left unevaluated otherwise
LogQuotient(n, d, base) ==
    IF d = 1 /\ PowerOf(n, base) # -1 THEN Num(PowerOf(n, base))
    ELSE IF n = 1 /\ PowerOf(d, base) # -1 THEN Num(-PowerOf(d, base))
    ELSE [k |-> "log", n |-> n, d |-> d, r |-> base]

\* a / b, as IEEE 754 divides: x/0 is +-Infinity, 0/0 and Inf/Inf are NaN
Div(a, b) ==
    CASE a.k = "nan" \/ b.k = "nan" -> NaN
      [] a.k = "fin" /\ b.k = "fin" ->
            IF b.n = 0
            THEN (IF a.n = 0 THEN NaN ELSE Infinite(Sign(a)))
            ELSE Radicals(a.n * b.d, a.d * b.n * b.r, a.r, b.r, GCD(a.r, b.r))
      [] IsInfinite(a) /\ IsInfinite(b) -> NaN
      [] IsInfinite(a) -> Infinite(Sign(a) * (IF Sign(b) < 0 THEN -1 ELSE 1))
      [] IsInfinite(b) -> Zero
      [] a.k = "fin" /\ a.n = 0 -> Zero
      [] a.k = "ln" /\ b.k = "ln" /\ b.d = 1 -> LogQuotient(a.n, a.d, b.n)

Square(a) == Mul(a, a)

\* the square root of a rational
Sqrt(a) ==
    CASE a.k = "nan" -> NaN
      [] a.k = "ninf" -> NaN
      [] a.k = "inf" -> PosInf
      [] a.k = "fin" /\ a.n < 0 -> NaN
      [] a.k = "fin" /\ a.r = 1 -> Fin(1, a.d, a.n * a.d)

\* the natural logarithm of a rational
Ln(a) ==
    CASE a.k = "nan" -> NaN
      [] a.k = "ninf" -> NaN
      [] a.k = "inf" -> PosInf
      [] a.k = "fin" /\ a.n < 0 -> NaN
      [] a.k = "fin" /\ a.n = 0 -> NegInf
      [] a.k = "fin" /\ a.n = a.d -> Zero
      [] a.k = "fin" /\ a.r = 1 -> [k |-> "ln", n |-> a.n, d |-> a.d, r |-> 1]

\* a < b, for finite numbers with one radical and for the infinities
Less(a, b) ==
    CASE a.k = "fin" /\ b.k = "fin" -> a.n * b.d < b.n * a.d
      [] a.k = "ninf" -> b.k \in {"fin", "inf"}
      [] b.k = "inf" -> a.k \in {"fin", "ninf"}
      [] OTHER -> FALSE

\* the smaller and the larger of two numbers; NaN if one of them is NaN
Min(x, y) ==
    IF x.k = "nan" \/ y.k = "nan" THEN NaN ELSE IF Less(y, x) THEN y ELSE x
Max(x, y) ==
    IF x.k = "nan" \/ y.k = "nan" THEN NaN ELSE IF Less(x, y) THEN y ELSE x

(***************************************************************************)
(* JavaScript values and the outcome of a call.                            *)
(***************************************************************************)
Undefined == [type |-> "undefined"]

Tensor2d(rows) == [type |-> "tensor", rank |-> 2, v |-> rows]
Tensor1d(xs) == [type |-> "tensor", rank |-> 1, v |-> xs]
Scalar(x) == [type |-> "tensor", rank |-> 0, v |-> x]

IsTensor(x) == x.type = "tensor"

Return(x) == [kind |-> "return", val |-> x]
Throw(name) == [kind |-> "throw", val |-> [type |-> "error", name |-> name]]
NoCall == [kind |-> "none", val |-> Undefined]

Thrown(o) == o.kind = "throw"

\* obj.key, which is undefined when obj has no property key
Get(obj, key) == IF key \in DOMAIN obj THEN obj[key] ELSE Undefined

NumSamples(t) == Len(t.v)
NumFeatures(t) == Len(t.v[1])

(***************************************************************************)
(* The tensor operations the file calls.                                   *)
(***************************************************************************)
\* the elementwise operation named op, of two numbers and of one
Binary(op, x, y) ==
    CASE op = "sub" -> Sub(x, y)
      [] op = "div" -> Div(x, y)
      [] op = "add" -> Add(x, y)
      [] op = "min" -> Min(x, y)
      [] op = "max" -> Max(x, y)

Unary(op, x) ==
    CASE op = "square" -> Square(x)
      [] op = "sqrt" -> Sqrt(x)
      [] op = "log" -> Ln(x)

\* the element of b that broadcasting pairs with element [i][j] (or [j], for
\* a vector a) of a
Paired(b, i, j) ==
    CASE b.rank = 2 -> b.v[i][j]
      [] b.rank = 1 -> b.v[j]
      [] b.rank = 0 -> b.v

\* a binary elementwise operation, the second operand broadcast to the first
BroadcastValues(op, a, b) ==
    IF a.rank = 2
    THEN Tensor2d([i \in DOMAIN a.v |->
                     [j \in DOMAIN a.v[i] |-> Binary(op, a.v[i][j], Paired(b, i, j))]])
    ELSE Tensor1d([j \in DOMAIN a.v |-> Binary(op, a.v[j], Paired(b, 1, j))])

Broadcast(op, a, b) == The({BroadcastValues(op, x, y) : x \in {a}, y \in {b}})

\* a unary elementwise operation
MapValues(op, a) ==
    CASE a.rank = 2 ->
            Tensor2d([i \in DOMAIN a.v |->
                        [j \in DOMAIN a.v[i] |-> Unary(op, a.v[i][j])]])
      [] a.rank = 1 -> Tensor1d([j \in DOMAIN a.v |-> Unary(op, a.v[j])])
      [] a.rank = 0 -> Scalar(Unary(op, a.v))

Map(op, a) == The({MapValues(op, x) : x \in {a}})

\* op folded over rows 1..i of column j of the matrix a
RECURSIVE FoldColumn(_, _, _, _)
FoldColumn(op, a, j, i) ==
    IF i = 1 THEN a.v[1][j]
    ELSE The({Binary(op, acc, a.v[i][j]) : acc \in {FoldColumn(op, a, j, i - 1)}})

\* a reduction of a matrix along axis 0: one value per column
ReduceAxis0(op, a) ==
    The({Tensor1d([j \in DOMAIN x.v[1] |-> FoldColumn(op, x, j, NumSamples(x))]) :
           x \in {a}})

\* a.sub(b): an operand that is no tensor is refused with an Error
sub(a, b) ==
    IF ~IsTensor(b) THEN Throw("Error") ELSE Return(Broadcast("sub", a, b))

\* a.div(b): an operand that is no tensor is refused with an Error
div(a, b) ==
    IF ~IsTensor(b) THEN Throw("Error") ELSE Return(Broadcast("div", a, b))

\* a.mean(0): the sum of each column divided by the number of rows
mean0(a) ==
    Broadcast("div", ReduceAxis0("add", a), Scalar(Num(NumSamples(a))))

\* a.min(): the smallest element of the whole tensor, the axis left out
minAll(a) ==
    The({Scalar(CHOOSE x \in {mins.v[j] : j \in DOMAIN mins.v} :
                  \A j \in DOMAIN mins.v : ~Less(mins.v[j], x)) :
           mins \in {ReduceAxis0("min", a)}})

\* a.min(0) and a.max(0)
min0(a) == ReduceAxis0("min", a)
max0(a) == ReduceAxis0("max", a)

square(a) == Map("square", a)
sqrt(a) == Map("sqrt", a)
log(a) == Map("log", a)

\* the methods of a tensor; a call of any other name is a TypeError
\* ("data.median is not a function")
TensorMethods ==
    {"mean", "sub", "square", "sqrt", "div", "min", "max", "log", "slice"}

(***************************************************************************)
(* State: the caller's matrix, the global scope of the module, the last    *)
(* call with its arguments as passed, the arguments as they are after the  *)
(* call, and the call's outcome.                                           *)
(***************************************************************************)
VARIABLES
    data,       \* the Tensor2d the caller holds, shape [numSamples, numFeatures]
    tfGlobal,   \* whether the global scope binds `tf` (the file imports nothing)
    call,       \* [fn, data, mean, std]: the function called and its arguments
    after,      \* [data, mean, std]: the argument tensors after the call
    ret         \* the outcome of the call

vars == <<data, tfGlobal, call, after, ret>>

(***************************************************************************)
(* The exported functions.  Each `const x = e` is a binding                *)
(* x \in {e} of The.                                                       *)
(***************************************************************************)
\* the sample standard deviation: the squared deviations' sum over N - 1
determineMeanAndStddevSample(d) ==
    The({The({
        IF Thrown(diffFromMean) THEN diffFromMean
        ELSE Return([type |-> "object",
                     dataMean |-> dataMean,
                     dataStd |-> sqrt(Broadcast("div",
                                   ReduceAxis0("add", square(diffFromMean.val)),
                                   Scalar(Num(NumSamples(d) - 1))))])
        : diffFromMean \in {sub(d, dataMean)}})
        : dataMean \in {mean0(d)}})

\* dataMean = data.mean(0); diffFromMean = data.sub(dataMean);
\* squaredDiffFromMean = diffFromMean.square();
\* variance = squaredDiffFromMean.mean(0); dataStd = variance.sqrt();
\* return { dataMean, dataStd }
determineMeanAndStddev(d) ==
    The({The({
        IF Thrown(diffFromMean) THEN diffFromMean
        ELSE Return([type |-> "object",
                     dataMean |-> dataMean,
                     dataStd |-> sqrt(mean0(square(diffFromMean.val)))])
        : diffFromMean \in {sub(d, dataMean)}})
        : dataMean \in {mean0(d)}})

\* data.sub(dataMean).div(dataStd): an error thrown by sub leaves the call
normalizeTensor(d, dataMean, dataStd) ==
    The({IF Thrown(centered) THEN centered ELSE div(centered.val, dataStd)
        : centered \in {sub(d, dataMean)}})

\* `const { mean, std } = determineMeanAndStddev(data)` reads the properties
\* mean and std of an object whose properties are dataMean and dataStd
normalizeTensorWithZScore(d) ==
    The({IF Thrown(stats) THEN stats
         ELSE normalizeTensor(d, Get(stats.val, "mean"), Get(stats.val, "std"))
        : stats \in {determineMeanAndStddev(d)}})

\* "subtracting the min and dividing by the max"
normalizeTensorWithMinMaxByMax(d) ==
    The({The({IF Thrown(shifted) THEN shifted ELSE div(shifted.val, max)
        : shifted \in {sub(d, min)}})
        : min \in {min0(d)}, max \in {max0(d)}})

\* min = data.min(0); max = data.max(0);
\* return data.sub(min).div(max.sub(min))
normalizeTensorWithMinMax(d) ==
    The({The({
        IF Thrown(shifted) THEN shifted
        ELSE IF Thrown(range) THEN range
        ELSE div(shifted.val, range.val)
        : shifted \in {sub(d, min)}, range \in {sub(max, min)}})
        : min \in {min0(d)}, max \in {max0(d)}})

\* data.log().div(tf.log(10)): `tf` is a free identifier of the module, and
\* evaluating tf.log(10) throws a ReferenceError unless the global scope
\* binds it
normalizeTensorWithLogScaling(d) ==
    The({IF ~tfGlobal THEN Throw("ReferenceError")
         ELSE div(logs, log(Scalar(Num(10))))
        : logs \in {log(d)}})

\* data.median(0) is the first call; a tensor has no method median
normalizeTensorWithRobustScaling(d) ==
    CASE "median" \notin TensorMethods -> Throw("TypeError")

\* the centring data.sub(data.mean(0)) done in place, on the caller's tensor
ArgsAfterInPlace(args) ==
    [args EXCEPT !.data = Broadcast("sub", args.data, mean0(args.data))]

\* The argument tensors after a call: no statement of the file assigns to a
\* tensor's values and every tensor method it calls returns a new tensor.
ArgsAfter(args) == args

(***************************************************************************)
(* The inputs.                                                             *)
(***************************************************************************)
Shapes ==
    {s \in (1..MaxSamples) \X (1..MaxFeatures) : s[1] * s[2] <= MaxCells}

Matrices ==
    UNION {{Tensor2d([i \in 1..s[1] |-> [j \in 1..s[2] |-> Num(m[i][j])]]) :
              m \in [1..s[1] -> [1..s[2] -> Elements]]} : s \in Shapes}

\* the mean and standard deviation a caller passes to normalizeTensor: the
\* matrix's own statistics, or vectors of its own
SuppliedStats(d) ==
    {<<own.val.dataMean, own.val.dataStd>> : own \in {determineMeanAndStddev(d)}}
      \cup {<<Tensor1d([j \in DOMAIN x |-> Num(x[j][1])]),
              Tensor1d([j \in DOMAIN x |-> Num(x[j][2])])>> :
                x \in [1..NumFeatures(d) -> SuppliedElements]}

Init ==
    /\ data \in Matrices
    /\ tfGlobal \in BOOLEAN
    /\ call = [fn |-> "none", data |-> data, mean |-> Undefined, std |-> Undefined]
    /\ after = [data |-> data, mean |-> Undefined, std |-> Undefined]
    /\ ret = NoCall

\* a call of fn with the arguments args, ending in the outcome out
Called(fn, args, out) ==
    /\ call' = [fn |-> fn, data |-> args.data, mean |-> args.mean, std |-> args.std]
    /\ after' = ArgsAfter(args)
    /\ data' = after'.data
    /\ ret' = out
    /\ UNCHANGED tfGlobal

OnData == [data |-> data, mean |-> Undefined, std |-> Undefined]

CallDetermineMeanAndStddev ==
    Called("determineMeanAndStddev", OnData, determineMeanAndStddev(data))

CallNormalizeTensor ==
    \E st \in SuppliedStats(data) :
        Called("normalizeTensor", [data |-> data, mean |-> st[1], std |-> st[2]],
               normalizeTensor(data, st[1], st[2]))

CallNormalizeTensorWithZScore ==
    Called("normalizeTensorWithZScore", OnData, normalizeTensorWithZScore(data))

CallNormalizeTensorWithMinMax ==
    Called("normalizeTensorWithMinMax", OnData, normalizeTensorWithMinMax(data))

CallNormalizeTensorWithLogScaling ==
    Called("normalizeTensorWithLogScaling", OnData,
           normalizeTensorWithLogScaling(data))

CallNormalizeTensorWithRobustScaling ==
    Called("normalizeTensorWithRobustScaling", OnData,
           normalizeTensorWithRobustScaling(data))

Next ==
    \/ CallDetermineMeanAndStddev
    \/ CallNormalizeTensor
    \/ CallNormalizeTensorWithZScore
    \/ CallNormalizeTensorWithMinMax
    \/ CallNormalizeTensorWithLogScaling
    \/ CallNormalizeTensorWithRobustScaling

Spec == Init /\ [][Next]_vars

(***************************************************************************)
(* Definitions the properties are stated with.  The input matrices hold    *)
(* integers, so a column's sums are integer sums.                          *)
(***************************************************************************)
Samples == 1..NumSamples(data)
Features == 1..NumFeatures(data)

\* the integer the input matrix holds at row i, column j
X(i, j) == data.v[i][j].n

RECURSIVE SumTo(_, _)
SumTo(f, i) == IF i = 0 THEN 0 ELSE SumTo(f, i - 1) + f[i]

ColumnSum(j) == SumTo([i \in Samples |-> X(i, j)], NumSamples(data))
ColumnSumOfSquares(j) ==
    SumTo([i \in Samples |-> X(i, j) * X(i, j)], NumSamples(data))

ColumnMin(j) == CHOOSE x \in {X(i, j) : i \in Samples} : \A i \in Samples : x <= X(i, j)
ColumnMax(j) == CHOOSE x \in {X(i, j) : i \in Samples} : \A i \in Samples : x >= X(i, j)
ConstantColumn(j) == ColumnMin(j) = ColumnMax(j)

\* the matrix of one column: column j of the matrix t
Column(t, j) == Tensor2d([i \in DOMAIN t.v |-> <<t.v[i][j]>>])
\* the vector of one element: element j of the vector t (undefined stays so)
Element(t, j) == IF IsTensor(t) THEN Tensor1d(<<t.v[j]>>) ELSE t

Returned == ret.kind = "return"
ReturnedMatrix == Returned /\ IsTensor(ret.val) /\ ret.val.rank = 2

MatrixFunctions ==
    {"normalizeTensor", "normalizeTensorWithZScore", "normalizeTensorWithMinMax",
     "normalizeTensorWithLogScaling", "normalizeTensorWithRobustScaling"}

----------------------------------------------------------------------------
(***************************************************************************)
(* C8: determineMeanAndStddev returns, for each column, the average of the *)
(* column and its population standard deviation: a number s >= 0 whose     *)
(* square is the average squared deviation, (N*sum(x^2) - sum(x)^2) / N^2  *)
(* (the divisor is N, not N - 1); a constant column has s = 0.             *)
(***************************************************************************)
C8_MeanAndPopulationStd ==
    call.fn = "determineMeanAndStddev" =>
        /\ Returned
        /\ \A j \in Features :
             LET N == NumSamples(data)
                 m == ret.val.dataMean.v[j]
                 s == ret.val.dataStd.v[j]
                 sq == Square(s)
             IN /\ IsRational(m) /\ m.n * N = ColumnSum(j) * m.d
                /\ IsFin(s) /\ Sign(s) >= 0
                /\ IsRational(sq)
                /\ sq.n * N * N =
                     (N * ColumnSumOfSquares(j) - ColumnSum(j) * ColumnSum(j)) * sq.d
                /\ (ConstantColumn(j) => s = Zero)

\* determineMeanAndStddev returned for a matrix of three samples with a
\* constant column and a column whose standard deviation is irrational
C8_Witness ==
    /\ call.fn = "determineMeanAndStddev"
    /\ Returned
    /\ NumSamples(data) = 3
    /\ \E j \in Features : ConstantColumn(j) /\ ret.val.dataStd.v[j] = Zero
    /\ \E j \in Features : ret.val.dataStd.v[j].r # 1

(***************************************************************************)
(* C3: after normalizeTensorWithMinMax, every column j with max > min has  *)
(* each element equal to (x - min) / (max - min), within [0, 1], with the  *)
(* value 0 at the column's minimum and the value 1 at its maximum.         *)
(***************************************************************************)
C3_MinMaxUnitRange ==
    call.fn = "normalizeTensorWithMinMax" =>
        /\ ReturnedMatrix
        /\ \A j \in Features : ColumnMax(j) > ColumnMin(j) =>
             /\ \A i \in Samples :
                  LET y == ret.val.v[i][j]
                  IN /\ IsRational(y)
                     /\ 0 <= y.n /\ y.n <= y.d
                     /\ y.n * (ColumnMax(j) - ColumnMin(j)) =
                          (X(i, j) - ColumnMin(j)) * y.d
             /\ \E i \in Samples : X(i, j) = ColumnMin(j) /\ ret.val.v[i][j] = Zero
             /\ \E i \in Samples : X(i, j) = ColumnMax(j) /\ ret.val.v[i][j] = One

\* normalizeTensorWithMinMax returned for a matrix with a non-constant
\* column that holds a value strictly between its minimum and its maximum
C3_Witness ==
    /\ call.fn = "normalizeTensorWithMinMax"
    /\ ReturnedMatrix
    /\ \E j \in Features : \E i \in Samples :
         /\ ColumnMin(j) < X(i, j) /\ X(i, j) < ColumnMax(j)
         /\ ret.val.v[i][j] \notin {Zero, One}

(***************************************************************************)
(* C10: columns are treated independently.  The outcome of every function  *)
(* on a matrix is, in column j, its outcome on column j alone (with        *)
(* element j of a supplied mean and standard deviation): the same values,  *)
(* or an error thrown in both.  Two matrices that agree on column j then   *)
(* have outputs that agree on column j, whatever their other columns hold. *)
(***************************************************************************)
Apply(fn, d, m, s) ==
    CASE fn = "determineMeanAndStddev" -> determineMeanAndStddev(d)
      [] fn = "normalizeTensor" -> normalizeTensor(d, m, s)
      [] fn = "normalizeTensorWithZScore" -> normalizeTensorWithZScore(d)
      [] fn = "normalizeTensorWithMinMax" -> normalizeTensorWithMinMax(d)
      [] fn = "normalizeTensorWithLogScaling" -> normalizeTensorWithLogScaling(d)
      [] fn = "normalizeTensorWithRobustScaling" -> normalizeTensorWithRobustScaling(d)

\* column j of a returned matrix, or element j of the returned statistics
ColumnOf(val, j) ==
    IF val.type = "object" THEN <<val.dataMean.v[j], val.dataStd.v[j]>>
    ELSE [i \in DOMAIN val.v |-> val.v[i][j]]

C10_ColumnsIndependent ==
    call.fn # "none" =>
        \A j \in Features :
            LET alone == Apply(call.fn, Column(data, j),
                               Element(call.mean, j), Element(call.std, j))
            IN /\ alone.kind = ret.kind
               /\ Returned => ColumnOf(ret.val, j) = ColumnOf(alone.val, 1)

\* normalizeTensorWithMinMax returned for a matrix of two non-constant
\* columns with different minima
C10_Witness ==
    /\ call.fn = "normalizeTensorWithMinMax"
    /\ ReturnedMatrix
    /\ NumFeatures(data) = 2
    /\ ColumnMin(1) # ColumnMin(2)
    /\ ~ConstantColumn(1) /\ ~ConstantColumn(2)

C1_ZScoreIsComposition ==
    call.fn = "normalizeTensorWithZScore" =>
        LET stats == determineMeanAndStddev(data).val
        IN ret = normalizeTensor(data, stats.dataMean, stats.dataStd)

(***************************************************************************)
(* C2: on a matrix with no constant column, normalizeTensorWithZScore      *)
(* returns a matrix whose every column sums to 0 and has squares of        *)
(* average 1.                                                              *)
(***************************************************************************)
Standardised(t) ==
    \A j \in DOMAIN t.v[1] :
        /\ FoldColumn("add", t, j, NumSamples(t)) = Zero
        /\ FoldColumn("add", square(t), j, NumSamples(t)) = Num(NumSamples(t))

C2_ZScoreStandardises ==
    (call.fn = "normalizeTensorWithZScore" /\ \A j \in Features : ~ConstantColumn(j))
        => ReturnedMatrix /\ Standardised(ret.val)

\* C2, of the composition the z-score is documented to be: normalizeTensor
\* with the matrix's own statistics standardises every non-constant column
C2_OwnStatisticsStandardise ==
    (/\ call.fn = "normalizeTensor"
     /\ call.mean = determineMeanAndStddev(data).val.dataMean
     /\ call.std = determineMeanAndStddev(data).val.dataStd
     /\ \A j \in Features : ~ConstantColumn(j))
        => ReturnedMatrix /\ Standardised(ret.val)

(***************************************************************************)
(* C4: normalizeTensorWithLogScaling returns the matrix of the base 10     *)
(* logarithms of the input's elements; a matrix of 10s gives a matrix of   *)
(* 1s.                                                                     *)
(***************************************************************************)
\* log10 of an integer, as IEEE 754 has it for 0 and for negative numbers
Log10(x) ==
    IF x < 0 THEN NaN
    ELSE IF x = 0 THEN NegInf
    ELSE IF x = 1 THEN Zero
    ELSE IF PowerOf(x, 10) # -1 THEN Num(PowerOf(x, 10))
    ELSE [k |-> "log", n |-> x, d |-> 1, r |-> 10]

IsLog10OfData(t) ==
    \A i \in Samples : \A j \in Features : t.v[i][j] = Log10(X(i, j))

C4_LogScalingIsLog10 ==
    call.fn = "normalizeTensorWithLogScaling" =>
        ReturnedMatrix /\ IsLog10OfData(ret.val)

\* C4, where the global scope binds tf
C4_LogScalingWhereTfBound ==
    (call.fn = "normalizeTensorWithLogScaling" /\ tfGlobal) =>
        ReturnedMatrix /\ IsLog10OfData(ret.val)

(***************************************************************************)
(* C5: no call ends in a thrown error.                                     *)
(***************************************************************************)
C5_NeverThrows == ret.kind # "throw"

(***************************************************************************)
(* C6: normalizeTensorWithRobustScaling returns (x - median) / (q3 - q1)   *)
(* for each element x of a column with median `median` and quartiles q1    *)
(* and q3, both by one definition (here the linearly interpolated one,     *)
(* which gives Q1 = 2 and Q3 = 4 for the column 1, 2, 3, 4, 5).            *)
(***************************************************************************)
\* column j of the input in ascending order
SortedColumn(j) ==
    CHOOSE s \in [Samples -> {X(i, j) : i \in Samples}] :
        /\ \A i, k \in Samples : i < k => s[i] <= s[k]
        /\ \A x \in {X(i, j) : i \in Samples} :
             Cardinality({i \in Samples : s[i] = x})
               = Cardinality({i \in Samples : X(i, j) = x})

\* the p-th quartile of column j (p = 1, 2, 3), linearly interpolated
Quartile(j, p) ==
    LET s == SortedColumn(j)
        N == NumSamples(data)
        lo == 1 + (p * (N - 1)) \div 4
        hi == IF lo < N THEN lo + 1 ELSE lo
        part == (p * (N - 1)) % 4
    IN Fin(4 * s[lo] + part * (s[hi] - s[lo]), 4, 1)

C6_RobustScaling ==
    call.fn = "normalizeTensorWithRobustScaling" =>
        /\ ReturnedMatrix
        /\ \A i \in Samples : \A j \in Features :
             ret.val.v[i][j] =
                 Div(Sub(data.v[i][j], Quartile(j, 2)),
                     Sub(Quartile(j, 3), Quartile(j, 1)))

(***************************************************************************)
(* C7: each of the five functions that return a matrix returns one of the  *)
(* shape of its input.                                                     *)
(***************************************************************************)
SameShape(t, u) ==
    /\ NumSamples(t) = NumSamples(u)
    /\ \A i \in DOMAIN t.v : Len(t.v[i]) = Len(u.v[i])

C7_ShapePreserved ==
    call.fn \in MatrixFunctions => ReturnedMatrix /\ SameShape(ret.val, data)

=============================================================================
